---- MODULE Spec2Model ----
(***************************************************************************)
(* Model of backend.py: the webhook relay (trigger_webhook), its shared    *)
(* statistics record (system_state, guarded by state_lock) and the status  *)
(* query (get_status), run by a pool of request threads.                   *)
(***************************************************************************)
EXTENDS Integers, FiniteSets, Sequences, TLC

\* ---------------------------------------------------------------- bounds
NumThreads == 2          \* request threads of the server
MaxDispatches == 2       \* dispatch calls (trigger_webhook) made in a run

Threads == 1..NumThreads

\* datetime.now().isoformat(): the program only stores and returns the
\* value, it never compares or computes with it, so one value stands for
\* every reading of the wall clock.
Times == {1}

\* ---------------------------------------------------------- configuration
\* WEBHOOK_CONFIG: action key -> url and description (the url is shortened to
\* its last path segment; it is only handed to requests.post).
WEBHOOK_CONFIG ==
    [k \in {"lock_screen", "block_touch", "open_site1", "open_site2", "open_site3"} |->
        CASE k = "lock_screen" -> [url |-> "/lock",  description |-> "Lock the phone screen immediately"]
          [] k = "block_touch" -> [url |-> "/block", description |-> "Block touch/UI interaction for 10 seconds"]
          [] k = "open_site1"  -> [url |-> "/site1", description |-> "Open Site 1 (e.g., YouTube)"]
          [] k = "open_site2"  -> [url |-> "/site2", description |-> "Open Site 2 (e.g., Twitter)"]
          [] k = "open_site3"  -> [url |-> "/site3", description |-> "Open Site 3 (e.g., Gmail)"]]

WEBHOOK_TIMEOUT == 10

\* Keys the routes hand to trigger_webhook: the fixed keys of the action
\* routes and the free <webhook_key> of /api/test-webhook/.
RouteKeys == {"lock_screen", "block_touch", "nonexistent_key"}

\* What the outbound call can end in: a response with a status code, or one
\* of the three exception classes the handler distinguishes.
StatusCodes == {200, 299, 300, 500}
ErrorTexts == {"boom"}
Outcomes ==
    [kind : {"response"}, status_code : StatusCodes]
      \cup {[kind |-> "Timeout"], [kind |-> "ConnectionError"]}
      \cup [kind : {"Exception"}, text : ErrorTexts]

NoKey == "-"
NoOutcome == [kind |-> "none"]
NoResult == [none |-> TRUE]
None == "None"
NoTime == -1
Free == 0
NoEntry == [none |-> TRUE]

VARIABLES
    system_state,   \* the statistics dict
    state_lock,     \* owner of state_lock, Free when not held
    pc,             \* position of each request thread
    key,            \* webhook_key of the thread's dispatch
    outcome,        \* response / exception of the thread's requests.post
    status,         \* update_state's status argument
    tmp,            \* value loaded by a  += 1  before it is stored back
    result,         \* dict returned by trigger_webhook
    snapshot,       \* body built by get_status
    posts,          \* outbound POSTs issued by the thread's dispatch
    calls,          \* history: dispatch calls made so far, by key class
    writer,         \* history: thread whose update wrote each last_* field / took the lock last
    did,            \* history: counter the thread's update incremented
    entry           \* history: the counters when the thread's running update took the lock

vars == <<system_state, state_lock, pc, key, outcome, status, tmp,
          result, snapshot, posts, calls, writer, did, entry>>

locals == <<key, outcome, status, tmp, result, snapshot, posts, did, entry>>

\* ------------------------------------------------------------------ state
InitialState ==
    [last_action |-> None, last_action_time |-> NoTime, last_action_status |-> None,
     total_requests |-> 0, successful_requests |-> 0, failed_requests |-> 0,
     backend_start_time |-> 0]

\* The three counters of the statistics dict.
Counters(stats) ==
    [total_requests |-> stats.total_requests,
     successful_requests |-> stats.successful_requests,
     failed_requests |-> stats.failed_requests]

Init ==
    /\ system_state = InitialState
    /\ state_lock = Free
    /\ pc = [p \in Threads |-> "idle"]
    /\ key = [p \in Threads |-> NoKey]
    /\ outcome = [p \in Threads |-> NoOutcome]
    /\ status = [p \in Threads |-> None]
    /\ tmp = [p \in Threads |-> 0]
    /\ result = [p \in Threads |-> NoResult]
    /\ snapshot = [p \in Threads |-> NoResult]
    /\ posts = [p \in Threads |-> 0]
    /\ calls = [known |-> 0, unknown |-> 0]
    /\ writer = [last_action |-> 0, last_action_time |-> 0, last_action_status |-> 0, lock |-> 0]
    /\ did = [p \in Threads |-> None]
    /\ entry = [p \in Threads |-> NoEntry]

\* ------------------------------------------------------------- state_lock
\* acquire() that does not wait for the holder.
CanAcquireUnguarded == TRUE

\* Lock.acquire(): blocks until no thread holds the lock.
CanAcquire == state_lock = Free

\* ---------------------------------------------------------- trigger_webhook
\* The key check left out.
IsKnownLax(k) == TRUE

IsKnown(k) == k \in DOMAIN WEBHOOK_CONFIG

UnknownResult(k, now) ==
    [success |-> FALSE, action |-> k,
     message |-> [text |-> "Unknown action: ", key |-> k],
     timestamp |-> now]

\* if webhook_key not in WEBHOOK_CONFIG: return {...}
UnknownAction(p, k) ==
    /\ pc' = [pc EXCEPT ![p] = "returned"]
    /\ \E now \in Times : result' = [result EXCEPT ![p] = UnknownResult(k, now)]
    /\ UNCHANGED <<status>>

\* A route calls trigger_webhook(webhook_key): the key check, and for a
\* known key the lookup of the url.
Call(p) ==
    /\ pc[p] = "idle"
    /\ calls.known + calls.unknown < MaxDispatches
    /\ \E k \in RouteKeys :
        /\ key' = [key EXCEPT ![p] = k]
        /\ IF IsKnown(k)
             THEN /\ pc' = [pc EXCEPT ![p] = "post"]
                  /\ calls' = [calls EXCEPT !.known = @ + 1]
                  /\ UNCHANGED <<result, status>>
             ELSE /\ UnknownAction(p, k)
                  /\ calls' = [calls EXCEPT !.unknown = @ + 1]
    /\ UNCHANGED <<system_state, state_lock, outcome, tmp, snapshot, posts,
                   writer, did, entry>>

\* The POST issued inside a  with state_lock:  block.
PostUnderLock(p) ==
    /\ pc[p] = "post"
    /\ CanAcquire
    /\ state_lock' = p
    /\ posts' = [posts EXCEPT ![p] = @ + 1]
    /\ pc' = [pc EXCEPT ![p] = "waiting"]
    /\ UNCHANGED <<system_state, key, outcome, status, tmp,
                   result, snapshot, calls, writer, did, entry>>

\* response = requests.post(webhook_url, ...): the request goes out and the
\* thread blocks for the response.
Post(p) ==
    /\ pc[p] = "post"
    /\ posts' = [posts EXCEPT ![p] = @ + 1]
    /\ pc' = [pc EXCEPT ![p] = "waiting"]
    /\ UNCHANGED <<system_state, state_lock, key, outcome, status, tmp,
                   result, snapshot, calls, writer, did, entry>>

\* 200 < status_code < 300
IsSuccessExclusive(code) == 200 < code /\ code < 300

\* 200 <= status_code <= 300
IsSuccessLax(code) == 200 <= code /\ code <= 300

\* if 200 <= response.status_code < 300
IsSuccess(code) == 200 <= code /\ code < 300

\* The status each branch of the try/except hands to update_state.
StatusFor(o) ==
    IF o.kind = "response" /\ IsSuccess(o.status_code) THEN "success" ELSE "error"

\* A failed attempt is sent again.
AfterOutcomeRetry(o) ==
    IF o.kind = "response" /\ o.status_code \in 200..299 THEN "lock" ELSE "post"

\* No  except Exception  clause: the exception leaves trigger_webhook.
AfterOutcomeNoCatchAll(o) == IF o.kind = "Exception" THEN "raised" ELSE "lock"

\* The Timeout handler returns without calling update_state.
AfterOutcomeSkipsUpdate(o) == IF o.kind = "Timeout" THEN "ret" ELSE "lock"

\* Where the thread goes once requests.post ended in o: every branch, the
\* catch-all  except Exception  included, calls update_state.
AfterOutcome(o) == "lock"

\* requests.post returns or raises; the branch taken calls update_state.
Respond(p) ==
    /\ pc[p] = "waiting"
    /\ \E o \in Outcomes :
        /\ outcome' = [outcome EXCEPT ![p] = o]
        /\ status' = [status EXCEPT ![p] = StatusFor(o)]
        /\ pc' = [pc EXCEPT ![p] = AfterOutcome(o)]
    /\ UNCHANGED <<system_state, state_lock, key, tmp, result, snapshot,
                   posts, calls, writer, did, entry>>

\* ------------------------------------------------------------ update_state
\* with state_lock:
Acquire(p) ==
    /\ pc[p] = "lock"
    /\ CanAcquire
    /\ state_lock' = p
    /\ entry' = [entry EXCEPT ![p] = Counters(system_state)]
    /\ writer' = [writer EXCEPT !.lock = p]
    /\ pc' = [pc EXCEPT ![p] = "l90"]
    /\ UNCHANGED <<system_state, key, outcome, status, tmp, result,
                   snapshot, posts, calls, did>>

\* system_state['last_action'] = action_name
SetLastAction(p) ==
    /\ pc[p] = "l90"
    /\ system_state' = [system_state EXCEPT !.last_action = key[p]]
    /\ writer' = [writer EXCEPT !.last_action = p]
    /\ pc' = [pc EXCEPT ![p] = "l91"]
    /\ UNCHANGED <<state_lock, calls>>
    /\ UNCHANGED locals

\* system_state['last_action_time'] = datetime.now().isoformat()
SetLastActionTime(p) ==
    /\ pc[p] = "l91"
    /\ \E now \in Times :
        system_state' = [system_state EXCEPT !.last_action_time = now]
    /\ writer' = [writer EXCEPT !.last_action_time = p]
    /\ pc' = [pc EXCEPT ![p] = "l92"]
    /\ UNCHANGED <<state_lock, calls>>
    /\ UNCHANGED locals

\* system_state['last_action_status'] = status
SetLastActionStatus(p) ==
    /\ pc[p] = "l92"
    /\ system_state' = [system_state EXCEPT !.last_action_status = status[p]]
    /\ writer' = [writer EXCEPT !.last_action_status = p]
    /\ pc' = [pc EXCEPT ![p] = "l93"]
    /\ UNCHANGED <<state_lock, calls>>
    /\ UNCHANGED locals

\* system_state['total_requests'] += 1, the load
LoadTotal(p) ==
    /\ pc[p] = "l93"
    /\ tmp' = [tmp EXCEPT ![p] = system_state.total_requests]
    /\ pc' = [pc EXCEPT ![p] = "l93s"]
    /\ UNCHANGED <<system_state, state_lock, key, outcome, status, result,
                   snapshot, posts, calls, writer, did, entry>>

\* system_state['total_requests'] += 1, the store
StoreTotal(p) ==
    /\ pc[p] = "l93s"
    /\ system_state' = [system_state EXCEPT !.total_requests = tmp[p] + 1]
    /\ tmp' = [tmp EXCEPT ![p] = 0]
    /\ pc' = [pc EXCEPT ![p] = "l95"]
    /\ UNCHANGED <<state_lock, key, outcome, status, result, snapshot, posts,
                   calls, writer, did, entry>>

\* The two branches exchanged.
CounterForSwapped(s) == IF s = "success" THEN "failed_requests" ELSE "successful_requests"

\* if status == 'success': successful_requests  else: failed_requests
CounterFor(s) == IF s = "success" THEN "successful_requests" ELSE "failed_requests"

\* the branch on status and the load of the chosen counter's  += 1
LoadCounter(p) ==
    /\ pc[p] = "l95"
    /\ tmp' = [tmp EXCEPT ![p] = system_state[CounterFor(status[p])]]
    /\ pc' = [pc EXCEPT ![p] = "l95s"]
    /\ UNCHANGED <<system_state, state_lock, key, outcome, status, result,
                   snapshot, posts, calls, writer, did, entry>>

\* the store of the chosen counter's  += 1
StoreCounter(p) ==
    /\ pc[p] = "l95s"
    /\ system_state' = [system_state EXCEPT ![CounterFor(status[p])] = tmp[p] + 1]
    /\ did' = [did EXCEPT ![p] = CounterFor(status[p])]
    /\ tmp' = [tmp EXCEPT ![p] = 0]
    /\ pc' = [pc EXCEPT ![p] = "unlock"]
    /\ UNCHANGED <<state_lock, key, outcome, status, result, snapshot,
                   posts, calls, writer, entry>>

\* leaving the  with state_lock:  block
Release(p) ==
    /\ pc[p] = "unlock"
    /\ state_lock' = Free
    /\ entry' = [entry EXCEPT ![p] = NoEntry]
    /\ pc' = [pc EXCEPT ![p] = "ret"]
    /\ UNCHANGED <<system_state, key, outcome, status, tmp, result, snapshot,
                   posts, calls, writer, did>>

\* ------------------------------------------------- trigger_webhook, return
\* The dict each branch returns.
ResultFor(k, o, now) ==
    CASE o.kind = "response" /\ IsSuccess(o.status_code) ->
            [success |-> TRUE, action |-> k,
             message |-> [description |-> WEBHOOK_CONFIG[k].description,
                          text |-> " - Command sent successfully"],
             status_code |-> o.status_code, timestamp |-> now]
      [] o.kind = "response" /\ ~IsSuccess(o.status_code) ->
            [success |-> FALSE, action |-> k,
             message |-> [text |-> "Webhook returned HTTP ", code |-> o.status_code],
             status_code |-> o.status_code, timestamp |-> now]
      [] o.kind = "Timeout" ->
            [success |-> FALSE, action |-> k,
             message |-> [text |-> "Request timed out. Phone may be unreachable."],
             timestamp |-> now]
      [] o.kind = "ConnectionError" ->
            [success |-> FALSE, action |-> k,
             message |-> [text |-> "Cannot connect to phone. Check internet connection."],
             timestamp |-> now]
      [] o.kind = "Exception" ->
            [success |-> FALSE, action |-> k,
             message |-> [text |-> "Unexpected error: ", error |-> o.text],
             timestamp |-> now]

Return(p) ==
    /\ pc[p] = "ret"
    /\ \E now \in Times :
        result' = [result EXCEPT ![p] = ResultFor(key[p], outcome[p], now)]
    /\ pc' = [pc EXCEPT ![p] = "returned"]
    /\ UNCHANGED <<system_state, state_lock, key, outcome, status, tmp,
                   snapshot, posts, calls, writer, did, entry>>

\* The route serialises the result (jsonify) and the thread is free again.
Finish(p) ==
    /\ pc[p] = "returned"
    /\ pc' = [pc EXCEPT ![p] = "idle"]
    /\ key' = [key EXCEPT ![p] = NoKey]
    /\ outcome' = [outcome EXCEPT ![p] = NoOutcome]
    /\ status' = [status EXCEPT ![p] = None]
    /\ result' = [result EXCEPT ![p] = NoResult]
    /\ posts' = [posts EXCEPT ![p] = 0]
    /\ did' = [did EXCEPT ![p] = None]
    /\ UNCHANGED <<system_state, state_lock, tmp, snapshot, calls, writer, entry>>

\* --------------------------------------------------------------- get_status
StatusCall(p) ==
    /\ pc[p] = "idle"
    /\ pc' = [pc EXCEPT ![p] = "s_lock"]
    /\ UNCHANGED <<system_state, state_lock, calls, writer>>
    /\ UNCHANGED locals

\* with state_lock:
StatusAcquire(p) ==
    /\ pc[p] = "s_lock"
    /\ CanAcquire
    /\ state_lock' = p
    /\ pc' = [pc EXCEPT ![p] = "s_read"]
    /\ UNCHANGED <<system_state, calls, writer>>
    /\ UNCHANGED locals

StatusBody(now) ==
    [online |-> TRUE,
     last_action |-> system_state.last_action,
     last_action_time |-> system_state.last_action_time,
     last_action_status |-> system_state.last_action_status,
     statistics |-> [total_requests |-> system_state.total_requests,
                     successful_requests |-> system_state.successful_requests,
                     failed_requests |-> system_state.failed_requests],
     backend_start_time |-> system_state.backend_start_time,
     current_time |-> now]

\* return jsonify({...}) inside the with block: the body is built and the
\* lock released on the way out.
StatusRead(p) ==
    /\ pc[p] = "s_read"
    /\ \E now \in Times : snapshot' = [snapshot EXCEPT ![p] = StatusBody(now)]
    /\ state_lock' = Free
    /\ pc' = [pc EXCEPT ![p] = "s_done"]
    /\ UNCHANGED <<system_state, key, outcome, status, tmp, result, posts,
                   calls, writer, did, entry>>

StatusDone(p) ==
    /\ pc[p] = "s_done"
    /\ snapshot' = [snapshot EXCEPT ![p] = NoResult]
    /\ pc' = [pc EXCEPT ![p] = "idle"]
    /\ UNCHANGED <<system_state, state_lock, key, outcome, status, tmp,
                   result, posts, calls, writer, did, entry>>

\* ------------------------------------------------------------ specification
Next ==
    \/ \E p \in Threads : Call(p)
    \/ \E p \in Threads : Post(p)
    \/ \E p \in Threads : Respond(p)
    \/ \E p \in Threads : Acquire(p)
    \/ \E p \in Threads : SetLastAction(p)
    \/ \E p \in Threads : SetLastActionTime(p)
    \/ \E p \in Threads : SetLastActionStatus(p)
    \/ \E p \in Threads : LoadTotal(p)
    \/ \E p \in Threads : StoreTotal(p)
    \/ \E p \in Threads : LoadCounter(p)
    \/ \E p \in Threads : StoreCounter(p)
    \/ \E p \in Threads : Release(p)
    \/ \E p \in Threads : Return(p)
    \/ \E p \in Threads : Finish(p)
    \/ \E p \in Threads : StatusCall(p)
    \/ \E p \in Threads : StatusAcquire(p)
    \/ \E p \in Threads : StatusRead(p)
    \/ \E p \in Threads : StatusDone(p)

Spec == Init /\ [][Next]_vars

\* --------------------------------------------------------------- properties
UpdateLines == {"l90", "l91", "l92", "l93", "l93s", "l95", "l95s", "unlock"}
DispatchLines == {"post", "waiting", "lock", "ret"} \cup UpdateLines
PostedLines == DispatchLines \ {"post"}

Balanced(stats) ==
    stats.total_requests = stats.successful_requests + stats.failed_requests

\* C1: whenever state_lock is free, and in every body get_status built,
\* total_requests = successful_requests + failed_requests.
C1_CountersBalanced ==
    /\ state_lock = Free => Balanced(system_state)
    /\ \A p \in Threads : pc[p] = "s_done" => Balanced(snapshot[p].statistics)

\* A status body read between two updates, while another dispatch is still
\* waiting for the lock or its webhook.
C1_Witness ==
    \E p, q \in Threads :
        /\ pc[p] = "s_done"
        /\ snapshot[p].statistics.total_requests = 1
        /\ pc[q] \in {"waiting", "lock"}
        /\ state_lock = Free

\* No dispatch of a known key is between its call and its return.
Quiescent == \A p \in Threads : pc[p] \notin DispatchLines

\* C2: once all dispatches of known keys have returned, total_requests is
\* their number N and equals successful_requests + failed_requests.
C2_NothingLostOrDoubled ==
    Quiescent =>
        /\ system_state.total_requests = calls.known
        /\ Balanced(system_state)

\* Two dispatches, each recorded after the other had started, have returned.
C2_Witness ==
    /\ Quiescent
    /\ calls.known >= 2
    /\ system_state.successful_requests >= 1
    /\ system_state.failed_requests >= 1
    /\ \E p, q \in Threads :
        /\ p # q
        /\ pc[p] = "returned" /\ IsKnown(key[p])
        /\ pc[q] = "returned" /\ IsKnown(key[q])

\* system_state as one complete update_state(k, st) leaves it, started from
\* the counters e (the time is whatever the clock said).
Updated(e, k, st, t) ==
    [last_action |-> k, last_action_time |-> t, last_action_status |-> st,
     total_requests |-> e.total_requests + 1,
     successful_requests |-> e.successful_requests + (IF st = "success" THEN 1 ELSE 0),
     failed_requests |-> e.failed_requests + (IF st = "success" THEN 0 ELSE 1),
     backend_start_time |-> InitialState.backend_start_time]

Is2xx(o) == o.kind = "response" /\ o.status_code >= 200 /\ o.status_code <= 299

\* C3: a dispatch of a known key answered with a 2xx status changes the
\* statistics by exactly total +1, successful +1, last_action = key,
\* last_action_status = 'success', and returns success with the key and status.
C3_SuccessEffect ==
    \A p \in Threads :
        (outcome[p] # NoOutcome /\ Is2xx(outcome[p])) =>
            /\ pc[p] = "unlock" =>
                 system_state = Updated(entry[p], key[p], "success",
                                        system_state.last_action_time)
            /\ pc[p] \in {"ret", "returned"} => did[p] = "successful_requests"
            /\ pc[p] = "returned" =>
                 /\ result[p].success = TRUE
                 /\ result[p].action = key[p]
                 /\ result[p].status_code = outcome[p].status_code

C3_Witness ==
    \E p \in Threads :
        /\ pc[p] = "returned"
        /\ outcome[p] = [kind |-> "response", status_code |-> 200]
        /\ key[p] = "lock_screen"
        /\ result[p].success
        /\ system_state.failed_requests = 1

\* C4: a dispatch of a known key whose call fails (status outside 200..299,
\* timeout, connection error, other exception) changes the statistics by
\* exactly total +1, failed +1, last_action_status = 'error' and returns
\* success = false; the non-2xx result carries the status, the timeout
\* result the timeout message.
C4_FailureEffect ==
    \A p \in Threads :
        (outcome[p] # NoOutcome /\ ~Is2xx(outcome[p])) =>
            /\ pc[p] = "unlock" =>
                 system_state = Updated(entry[p], key[p], "error",
                                        system_state.last_action_time)
            /\ pc[p] \in {"ret", "returned"} => did[p] = "failed_requests"
            /\ pc[p] = "returned" =>
                 /\ result[p].success = FALSE
                 /\ result[p].action = key[p]
                 /\ outcome[p].kind = "response" =>
                      /\ result[p].status_code = outcome[p].status_code
                      /\ result[p].message = [text |-> "Webhook returned HTTP ",
                                              code |-> outcome[p].status_code]
                 /\ outcome[p].kind = "Timeout" =>
                      result[p].message =
                          [text |-> "Request timed out. Phone may be unreachable."]

C4_Witness ==
    \E p, q \in Threads :
        /\ p # q
        /\ pc[p] = "returned" /\ pc[q] = "returned"
        /\ outcome[p] = [kind |-> "response", status_code |-> 500]
        /\ outcome[q] = [kind |-> "Timeout"]
        /\ ~result[p].success /\ ~result[q].success
        /\ system_state.failed_requests >= 2

IsUnknown(k) == k # NoKey /\ k \notin DOMAIN WEBHOOK_CONFIG

\* C5: a dispatch of a key outside the registry returns success = false with
\* 'Unknown action: <key>', issues no POST and leaves system_state unchanged.
C5_UnknownKeyFrame ==
    /\ [](\A p \in Threads :
            IsUnknown(key[p]) =>
                /\ pc[p] = "returned"
                /\ posts[p] = 0
                /\ result[p].success = FALSE
                /\ result[p].action = key[p]
                /\ result[p].message = [text |-> "Unknown action: ", key |-> key[p]])
    /\ [][\A p \in Threads :
            (pc'[p] # pc[p] /\ (IsUnknown(key[p]) \/ IsUnknown(key'[p]))) =>
                /\ system_state' = system_state
                /\ state_lock' = state_lock
                /\ posts'[p] = 0]_vars

\* An unknown key returned after another dispatch had been recorded.
C5_Witness ==
    \E p \in Threads :
        /\ pc[p] = "returned"
        /\ key[p] = "nonexistent_key"
        /\ system_state.total_requests >= 1

\* C6: a dispatch whose POST is in flight does not hold state_lock.
C6_NoLockAcrossPost ==
    \A p \in Threads :
        /\ pc[p] \in {"post", "waiting"} => state_lock # p
        /\ state_lock = p => pc[p] \in UpdateLines \cup {"s_read"}

\* One dispatch waits for its webhook while another is inside update_state.
C6_Witness ==
    \E p, q \in Threads :
        /\ pc[p] = "waiting"
        /\ pc[q] = "l93s"
        /\ state_lock = q

\* C7: a dispatch that resolved its key issues exactly one POST, whatever
\* the outcome.
C7_SinglePost ==
    \A p \in Threads :
        /\ posts[p] <= 1
        /\ (pc[p] \in PostedLines \cup {"returned"} /\ IsKnown(key[p])) => posts[p] = 1
        /\ pc[p] \in {"idle", "post"} => posts[p] = 0

C7_Witness ==
    \E p \in Threads :
        /\ pc[p] = "returned"
        /\ outcome[p] = [kind |-> "ConnectionError"]
        /\ posts[p] = 1

ThreadLines == {"idle", "returned", "s_lock", "s_read", "s_done"} \cup DispatchLines

IsRelayResult(r) ==
    /\ {"success", "action", "message", "timestamp"} \subseteq DOMAIN r
    /\ r.success \in BOOLEAN

\* C8: every dispatch ends in a returned result; each error outcome gives
\* success = false with its message; no thread is left in an exception state
\* or keeps the lock, so further calls are served.
C8_ErrorsBecomeResults ==
    \A p \in Threads :
        /\ pc[p] \in ThreadLines
        /\ pc[p] \in {"idle", "returned"} => state_lock # p
        /\ pc[p] = "waiting" => ENABLED Respond(p)
        /\ pc[p] = "unlock" => ENABLED Release(p)
        /\ pc[p] = "ret" => ENABLED Return(p)
        /\ pc[p] = "returned" => ENABLED Finish(p)
        /\ pc[p] = "returned" =>
             /\ IsRelayResult(result[p])
             /\ IsUnknown(key[p]) =>
                  /\ ~result[p].success
                  /\ result[p].message.text = "Unknown action: "
             /\ (IsKnown(key[p]) /\ outcome[p].kind = "response") =>
                  (result[p].success <=> Is2xx(outcome[p]))
             /\ (IsKnown(key[p]) /\ outcome[p].kind = "response" /\ ~Is2xx(outcome[p])) =>
                  result[p].message.text = "Webhook returned HTTP "
             /\ (IsKnown(key[p]) /\ outcome[p].kind = "Timeout") =>
                  /\ ~result[p].success
                  /\ result[p].message.text = "Request timed out. Phone may be unreachable."
             /\ (IsKnown(key[p]) /\ outcome[p].kind = "ConnectionError") =>
                  /\ ~result[p].success
                  /\ result[p].message.text
                       = "Cannot connect to phone. Check internet connection."
             /\ (IsKnown(key[p]) /\ outcome[p].kind = "Exception") =>
                  /\ ~result[p].success
                  /\ result[p].message = [text |-> "Unexpected error: ",
                                          error |-> outcome[p].text]

\* An unexpected exception was turned into a result, and a later dispatch
\* is being served.
C8_Witness ==
    \E p, q \in Threads :
        /\ pc[p] = "returned"
        /\ outcome[p].kind = "Exception"
        /\ pc[q] = "waiting"
        /\ calls.known = 2
        /\ system_state.total_requests = 1

\* Dispatches of known keys that have returned.
ReturnedKnown ==
    calls.known - Cardinality({p \in Threads : pc[p] \in DispatchLines})

\* C9: a dispatch of a known key returns only after its update completed,
\* returns success exactly if that update incremented successful_requests,
\* and a status body read afterwards counts it.
C9_UpdateBeforeReturn ==
    /\ [](/\ \A p \in Threads :
               (pc[p] = "returned" /\ IsKnown(key[p])) =>
                   /\ did[p] \in {"successful_requests", "failed_requests"}
                   /\ result[p].success <=> did[p] = "successful_requests"
                   /\ state_lock # p
          /\ ReturnedKnown <= system_state.total_requests)
    /\ [][\A p \in Threads :
            (pc[p] = "s_read" /\ pc'[p] = "s_done") =>
                snapshot'[p].statistics.total_requests >= ReturnedKnown]_vars

\* A status body read after a dispatch returned, which counts it.
C9_Witness ==
    \E p, q \in Threads :
        /\ pc[p] = "s_done"
        /\ snapshot[p].statistics.total_requests = 1
        /\ pc[q] = "returned"
        /\ IsKnown(key[q])
        /\ ~result[q].success

\* C10: whenever state_lock is free the last_* fields agree with the
\* counters: all None exactly when nothing was recorded; otherwise a
\* registry key, a status of 'success' or 'error' backed by its counter, all
\* written by the update that took the lock last.
C10_LastActionConsistent ==
    state_lock = Free =>
        /\ system_state.last_action = None <=> system_state.total_requests = 0
        /\ system_state.last_action_time = NoTime <=> system_state.total_requests = 0
        /\ system_state.last_action_status = None <=> system_state.total_requests = 0
        /\ system_state.total_requests > 0 =>
             /\ system_state.last_action \in DOMAIN WEBHOOK_CONFIG
             /\ system_state.last_action_time \in Times
             /\ system_state.last_action_status \in {"success", "error"}
             /\ writer.lock \in Threads
             /\ writer.last_action = writer.lock
             /\ writer.last_action_time = writer.lock
             /\ writer.last_action_status = writer.lock
             /\ system_state.last_action_status = "success"
                  => system_state.successful_requests >= 1
             /\ system_state.last_action_status = "error"
                  => system_state.failed_requests >= 1

\* The second of two updates overwrote the fields of the first.
C10_Witness ==
    /\ state_lock = Free
    /\ system_state.total_requests = 2
    /\ system_state.last_action = "block_touch"
    /\ system_state.last_action_status = "error"
    /\ system_state.successful_requests = 1
    /\ \E p \in Threads : key[p] = "block_touch" /\ pc[p] = "ret"
    /\ \E p \in Threads : key[p] = "lock_screen" /\ pc[p] = "returned"

====
